---- MODULE Spec2Model ----
(***************************************************************************)
(* A model of src/src/fastx.rs: Fastx::filter_reads_into (the streaming    *)
(* filter over a set of wanted record positions), Fastx::read_lengths and  *)
(* the classification of a path into (filetype, is_compressed).            *)
(*                                                                         *)
(* Text is modelled as TLA+ strings, so the sink holds the bytes written   *)
(* and a record's rendering can be compared with the text of the file.     *)
(***************************************************************************)
EXTENDS Integers, Sequences, FiniteSets, TLC

\* ------------------------------------------------------------------ bounds

\* The longest input file, in records.
MaxRecords == 4

\* The largest index a wanted set may hold.
MaxIndex == 2

\* The most extensions a path carries.
MaxExts == 2

\* ----------------------------------------------------------------- records

FileTypes == {"Fasta", "Fastq"}

\* fasta::Record::new() / fastq::Record::new(): the record buffer before the
\* first read, and what reader.read leaves in it at end of stream.
EmptyRecord == [hdr |-> "", seq |-> "", qual |-> ""]

\* record.is_empty(), the loop condition's test for end of stream: every
\* well-formed record of the model has a header, so only the buffer left by a
\* read at end of stream is empty.
IsEmpty(rec) == rec = EmptyRecord

\* The entries an input file is made of: two well-formed records (the ones of
\* the tests filter_fastq_reads_one_index_out_of_range) and a malformed one,
\* on which reader.read returns Err.
GoodEntries ==
    { [ok |-> TRUE, hdr |-> "read1 length=4", seq |-> "ACGT", qual |-> "!!!!"],
      [ok |-> TRUE, hdr |-> "read2", seq |-> "C", qual |-> "^"] }

BadEntry == [ok |-> FALSE, hdr |-> "", seq |-> "", qual |-> ""]

Entries == GoodEntries \cup {BadEntry}

\* All sequences over S of length 0..n.
SeqsUpTo(S, n) == UNION { [1..k -> S] : k \in 0..n }

\* The text of a well-formed record as it stands in the input file. Only the
\* last record of a file may lack its line terminator (eol = FALSE), as in the
\* inputs of open_valid_fastq_file and filter_reads_empty_indices_no_output.
RawText(ft, e, eol) ==
    IF ft = "Fasta"
    THEN ">" \o e.hdr \o "\n" \o e.seq \o (IF eol THEN "\n" ELSE "")
    ELSE "@" \o e.hdr \o "\n" \o e.seq \o "\n+\n" \o e.qual
             \o (IF eol THEN "\n" ELSE "")

\* What a successful reader.read(&mut record) stores in the record buffer: the
\* header, the sequence and (Fastq) the quality, without the line terminators.
ParseRecord(ft, e) ==
    [hdr |-> e.hdr, seq |-> e.seq, qual |-> IF ft = "Fastq" THEN e.qual ELSE ""]

\* write!(write_to, "{}", record): the text a record is written as, a function
\* of the parsed record alone.
Display(ft, rec) ==
    IF ft = "Fasta"
    THEN ">" \o rec.hdr \o "\n" \o rec.seq \o "\n"
    ELSE "@" \o rec.hdr \o "\n" \o rec.seq \o "\n+\n" \o rec.qual \o "\n"

\* ------------------------------------------------------------------- state

VARIABLES
    filetype,       \* self.filetype
    file,           \* the entries of the input file, in order
    eofNewline,     \* whether the last record of the file ends with "\n"
    openable,       \* whether self.open() succeeds on the input file
    wanted0,        \* reads_to_keep as passed by the caller
    reads_to_keep,  \* the HashSet<u32>, shrinking
    i,              \* the position counter
    record,         \* the record buffer
    pulled,         \* number of reader.read calls made so far
    attempts,       \* number of write! calls made so far
    writeErr,       \* whether a write! call has returned Err
    sink,           \* the bytes write_to holds
    pc,             \* where filter_reads_into stands
    result,         \* what filter_reads_into ended with
    seqfile,        \* read_lengths: the records of the file, in order
    seqOpenable,    \* read_lengths: whether parse_fastx_file succeeds
    nextPos,        \* read_lengths: records the reader has handed out
    read_lengths,   \* read_lengths: the Vec<u32> being filled
    lpc,            \* read_lengths: where it stands
    returned,       \* read_lengths: the Result it returned
    path,           \* from_path: the path given
    fastx           \* from_path: the Result it returned

\* What the caller and the file system fix before the call.
input == << filetype, file, eofNewline, openable, wanted0 >>

\* The state of filter_reads_into.
filterVars == << input, reads_to_keep, i, record, pulled, attempts, writeErr,
                 sink, pc, result >>

\* The state of read_lengths.
lengthsVars == << seqfile, seqOpenable, nextPos, read_lengths, lpc, returned >>

\* The state of from_path.
classifyVars == << path, fastx >>

vars == << filterVars, lengthsVars, classifyVars >>

\* The ways filter_reads_into ends: Ok(()), a FastxError, or a panic.
Results ==
    {"none", "Ok", "ReadError", "ParseError", "WriteError", "IndicesNotFound",
     "Panic"}

\* ----------------------------------------------------- filter_reads_into

\* The state at the call of filter_reads_into: any file of at most MaxRecords
\* entries, either format, any wanted set of indices up to MaxIndex.
FilterInit ==
    /\ filetype \in FileTypes
    /\ file \in SeqsUpTo(Entries, MaxRecords)
    /\ eofNewline \in (IF file # << >> /\ file[Len(file)].ok
                       THEN BOOLEAN ELSE {TRUE})
    /\ openable \in BOOLEAN
    /\ wanted0 \in SUBSET (0..MaxIndex)
    /\ reads_to_keep = wanted0
    /\ i = 0
    /\ record = EmptyRecord
    /\ pulled = 0
    /\ attempts = 0
    /\ writeErr = FALSE
    /\ sink = ""
    /\ pc = "open"
    /\ result = "none"

\* No call of filter_reads_into is under way.
FilterIdle ==
    /\ filetype = "Fasta"
    /\ file = << >>
    /\ eofNewline = TRUE
    /\ openable = TRUE
    /\ wanted0 = {}
    /\ reads_to_keep = {}
    /\ i = 0
    /\ record = EmptyRecord
    /\ pulled = 0
    /\ attempts = 0
    /\ writeErr = FALSE
    /\ sink = ""
    /\ pc = "idle"
    /\ result = "none"

\* No call of read_lengths is under way.
LengthsIdle ==
    /\ seqfile = << >>
    /\ seqOpenable = TRUE
    /\ nextPos = 0
    /\ read_lengths = << >>
    /\ lpc = "idle"
    /\ returned = [kind |-> "none"]

\* No call of from_path is under way.
ClassifyIdle ==
    /\ path = [stem |-> "", exts |-> << >>]
    /\ fastx = [kind |-> "idle"]

Init == FilterInit /\ LengthsIdle /\ ClassifyIdle

\* let file_handle = self.open()?; the file opens, and the reader, the record
\* buffer and the counter are set up.
OpenOk ==
    /\ pc = "open"
    /\ openable
    /\ pc' = "read"
    /\ UNCHANGED << input, reads_to_keep, i, record, pulled, attempts,
                    writeErr, sink, result >>
    /\ UNCHANGED << lengthsVars, classifyVars >>

\* A mutant of the open failure: the error is dropped and the scan starts.
OpenFailIgnored ==
    /\ pc = "open"
    /\ ~openable
    /\ pc' = "read"
    /\ UNCHANGED << input, reads_to_keep, i, record, pulled, attempts,
                    writeErr, sink, result >>
    /\ UNCHANGED << lengthsVars, classifyVars >>

\* let file_handle = self.open()?; the file cannot be opened and the error of
\* open is returned (a ReadError, as open_invalid_input_file_raises_error has it).
OpenFail ==
    /\ pc = "open"
    /\ ~openable
    /\ pc' = "done"
    /\ result' = "ReadError"
    /\ UNCHANGED << input, reads_to_keep, i, record, pulled, attempts,
                    writeErr, sink >>
    /\ UNCHANGED << lengthsVars, classifyVars >>

\* u32::MAX, the largest value of the counter i and of an index of the
\* HashSet<u32>, at the scale of the model.
U32Max == MaxIndex

\* i += 1 would leave the range of u32.
Overflows(n) == n = U32Max

\* What i += 1 does on overflow: a build with overflow checks panics, one
\* without wraps around.
OverflowOutcomes == {"panic", "wrap"}

\* i += 1, in the wrapping arithmetic of u32
NextIndex(n) == IF Overflows(n) THEN 0 ELSE n + 1

\* A mutant of the membership test: every record is kept.
KeepReadAlways(keep, n) == TRUE

\* reads_to_keep.contains(&i)
KeepRead(keep, n) == n \in keep

\* A mutant of the removal: the index stays in the set.
RemoveReadNot(keep, n) == keep

\* reads_to_keep.remove(&i)
RemoveRead(keep, n) == keep \ {n}

\* A mutant of the early stop: the loop is never left early.
BreakLoopNever(keep) == FALSE

\* A mutant of the early stop: the loop is left while indices are still wanted.
BreakLoopInverted(keep) == keep # {}

\* if reads_to_keep.is_empty() { break; }
BreakLoop(keep) == keep = {}

\* A mutant of the final test: success whatever is left in the set.
FinalResultAlwaysOk(keep) == "Ok"

\* if reads_to_keep.is_empty() { Ok(()) } else { Err(IndicesNotFound) }
FinalResult(keep) == IF keep = {} THEN "Ok" ELSE "IndicesNotFound"

\* reader.read(&mut record).expect("Failed to parse record"), on a record that
\* parses or at end of stream: the buffer holds the record, or is left empty.
ReadOk ==
    /\ pc = "read"
    /\ pulled < Len(file) => file[pulled + 1].ok
    /\ record' = IF pulled < Len(file)
                 THEN ParseRecord(filetype, file[pulled + 1])
                 ELSE EmptyRecord
    /\ pulled' = pulled + 1
    /\ pc' = "test"
    /\ UNCHANGED << input, reads_to_keep, i, attempts, writeErr, sink, result >>
    /\ UNCHANGED << lengthsVars, classifyVars >>

\* reader.read(&mut record).expect("Failed to parse record"), on a malformed
\* record: read returns Err and expect panics; nothing is returned.
ReadPanic ==
    /\ pc = "read"
    /\ pulled < Len(file)
    /\ ~file[pulled + 1].ok
    /\ pulled' = pulled + 1
    /\ pc' = "done"
    /\ result' = "Panic"
    /\ UNCHANGED << input, reads_to_keep, i, record, attempts, writeErr, sink >>
    /\ UNCHANGED << lengthsVars, classifyVars >>

\* while !record.is_empty() { if reads_to_keep.contains(&i) { ... } ... }
TestRecord ==
    /\ pc = "test"
    /\ pc' = IF IsEmpty(record) THEN "finish"
             ELSE IF KeepRead(reads_to_keep, i) THEN "write"
             ELSE "check"
    /\ UNCHANGED << input, reads_to_keep, i, record, pulled, attempts,
                    writeErr, sink, result >>
    /\ UNCHANGED << lengthsVars, classifyVars >>

\* write!(write_to, "{}", record) succeeds; reads_to_keep.remove(&i).
WriteOk ==
    /\ pc = "write"
    /\ attempts' = attempts + 1
    /\ sink' = sink \o Display(filetype, record)
    /\ reads_to_keep' = RemoveRead(reads_to_keep, i)
    /\ pc' = "check"
    /\ UNCHANGED << input, i, record, pulled, writeErr, result >>
    /\ UNCHANGED << lengthsVars, classifyVars >>

\* A mutant of the write failure: the error is dropped and the scan goes on.
WriteFailIgnored ==
    /\ pc = "write"
    /\ attempts' = attempts + 1
    /\ writeErr' = TRUE
    /\ reads_to_keep' = RemoveRead(reads_to_keep, i)
    /\ pc' = "check"
    /\ UNCHANGED << input, i, record, pulled, sink, result >>
    /\ UNCHANGED << lengthsVars, classifyVars >>

\* write!(write_to, "{}", record).map_err(|source| WriteError { source })?
\* fails: the error is returned at once. The sink holds the completed writes.
WriteFail ==
    /\ pc = "write"
    /\ attempts' = attempts + 1
    /\ writeErr' = TRUE
    /\ pc' = "done"
    /\ result' = "WriteError"
    /\ UNCHANGED << input, reads_to_keep, i, record, pulled, sink >>
    /\ UNCHANGED << lengthsVars, classifyVars >>

\* if reads_to_keep.is_empty() { break; }  i += 1;
CheckDone ==
    /\ pc = "check"
    /\ IF BreakLoop(reads_to_keep)
       THEN /\ pc' = "finish"
            /\ i' = i
            /\ result' = result
       ELSE \E outcome \in OverflowOutcomes :
                IF Overflows(i) /\ outcome = "panic"
                THEN /\ pc' = "done"
                     /\ i' = i
                     /\ result' = "Panic"
                ELSE /\ pc' = "read"
                     /\ i' = NextIndex(i)
                     /\ result' = result
    /\ UNCHANGED << input, reads_to_keep, record, pulled, attempts, writeErr,
                    sink >>
    /\ UNCHANGED << lengthsVars, classifyVars >>

\* if reads_to_keep.is_empty() { Ok(()) } else { Err(IndicesNotFound) }
Finish ==
    /\ pc = "finish"
    /\ result' = FinalResult(reads_to_keep)
    /\ pc' = "done"
    /\ UNCHANGED << input, reads_to_keep, i, record, pulled, attempts,
                    writeErr, sink >>
    /\ UNCHANGED << lengthsVars, classifyVars >>

Next ==
    \/ OpenOk
    \/ OpenFail
    \/ ReadOk
    \/ ReadPanic
    \/ TestRecord
    \/ WriteOk
    \/ WriteFail
    \/ CheckDone
    \/ Finish

Spec == Init /\ [][Next]_vars

\* ------------------------------------------------------------ read_lengths

\* The records a file scanned by read_lengths is made of. rec.num_bases() is a
\* usize, kept here as its upper 32 bits (hi) and lower 32 bits (lo): records
\* of 4 and 1 bases (the tests get_read_lengths_for_fasta / _fastq), a record
\* of 2^32 + 4 bases, and a malformed record, on which reader.next() yields Err.
SeqEntries ==
    { [ok |-> TRUE, hi |-> 0, lo |-> 4],
      [ok |-> TRUE, hi |-> 0, lo |-> 1],
      [ok |-> TRUE, hi |-> 1, lo |-> 4],
      [ok |-> FALSE, hi |-> 0, lo |-> 0] }

\* rec.num_bases()
NumBases(e) == [hi |-> e.hi, lo |-> e.lo]

\* rec.num_bases() as u32: the cast keeps the lower 32 bits.
AsU32(n) == n.lo

\* A mutant of the push: the length goes to the front of the vector.
PushFront(v, x) == << x >> \o v

\* read_lengths.push(..)
Push(v, x) == Append(v, x)

\* The state at the call of read_lengths: any file of at most MaxRecords
\* records.
LengthsInit ==
    /\ seqfile \in SeqsUpTo(SeqEntries, MaxRecords)
    /\ seqOpenable \in BOOLEAN
    /\ nextPos = 0
    /\ read_lengths = << >>
    /\ lpc = "open"
    /\ returned = [kind |-> "none"]

\* parse_fastx_file(&self.path) succeeds; let mut read_lengths = vec![].
LengthsOpenOk ==
    /\ lpc = "open"
    /\ seqOpenable
    /\ lpc' = "next"
    /\ UNCHANGED << seqfile, seqOpenable, nextPos, read_lengths, returned >>
    /\ UNCHANGED << filterVars, classifyVars >>

\* parse_fastx_file(&self.path).map_err(|source| ReadError { source })? fails.
LengthsOpenFail ==
    /\ lpc = "open"
    /\ ~seqOpenable
    /\ lpc' = "done"
    /\ returned' = [kind |-> "ReadError"]
    /\ UNCHANGED << seqfile, seqOpenable, nextPos, read_lengths >>
    /\ UNCHANGED << filterVars, classifyVars >>

\* reader.next() is Some(Ok(rec)): read_lengths.push(rec.num_bases() as u32).
NextRecordOk ==
    /\ lpc = "next"
    /\ nextPos < Len(seqfile)
    /\ seqfile[nextPos + 1].ok
    /\ read_lengths' = Push(read_lengths, AsU32(NumBases(seqfile[nextPos + 1])))
    /\ nextPos' = nextPos + 1
    /\ UNCHANGED << seqfile, seqOpenable, lpc, returned >>
    /\ UNCHANGED << filterVars, classifyVars >>

\* reader.next() is Some(Err(err)): return Err(ParseError { source: err }).
NextRecordErr ==
    /\ lpc = "next"
    /\ nextPos < Len(seqfile)
    /\ ~seqfile[nextPos + 1].ok
    /\ nextPos' = nextPos + 1
    /\ lpc' = "done"
    /\ returned' = [kind |-> "ParseError"]
    /\ UNCHANGED << seqfile, seqOpenable, read_lengths >>
    /\ UNCHANGED << filterVars, classifyVars >>

\* reader.next() is None: Ok(read_lengths).
EndOfReader ==
    /\ lpc = "next"
    /\ nextPos = Len(seqfile)
    /\ lpc' = "done"
    /\ returned' = [kind |-> "Ok", lengths |-> read_lengths]
    /\ UNCHANGED << seqfile, seqOpenable, nextPos, read_lengths >>
    /\ UNCHANGED << filterVars, classifyVars >>

LengthsNext ==
    \/ LengthsOpenOk
    \/ LengthsOpenFail
    \/ NextRecordOk
    \/ NextRecordErr
    \/ EndOfReader

LengthsCall == FilterIdle /\ LengthsInit /\ ClassifyIdle

SpecLengths == LengthsCall /\ [][LengthsNext]_vars

\* --------------------------------------------------------------- from_path

\* The extensions that name a format, and the compression suffix.
FastaExts == {"fa", "fasta"}

FastqExts == {"fq", "fastq"}

GzExt == "gz"

\* The extensions the paths of the model are built from: the recognised
\* ones, an unrecognised one (invalid_extension_raises_error) and one that
\* differs from a recognised one in case only.
PathExts == FastaExts \cup FastqExts \cup {GzExt, "bam", "FA"}

\* The paths from_path is called with: a stem followed by at most MaxExts
\* extensions, and the empty path. "data/fq" is the path without extension of
\* no_extension_raises_error.
Paths ==
    { [stem |-> st, exts |-> ex] :
        st \in {"data/in", "data/fq"}, ex \in SeqsUpTo(PathExts, MaxExts) }
    \cup { [stem |-> "", exts |-> << >>] }

\* The path as the string the caller passed.
RECURSIVE JoinExts(_)
JoinExts(exts) ==
    IF exts = << >> THEN ""
    ELSE JoinExts(SubSeq(exts, 1, Len(exts) - 1)) \o "." \o exts[Len(exts)]

PathString(p) == p.stem \o JoinExts(p.exts)

\* path.extension(): the last extension, if there is one.
HasExtension(exts) == exts # << >>

Extension(exts) == exts[Len(exts)]

\* path.is_compressed(): the last extension is the compression suffix.
IsCompressed(p) == HasExtension(p.exts) /\ Extension(p.exts) = GzExt

\* The extensions left once a single trailing compression suffix is stripped.
Uncompressed(p) ==
    IF IsCompressed(p) THEN SubSeq(p.exts, 1, Len(p.exts) - 1) ELSE p.exts

\* A mutant of the classification: the error carries the stripped path.
FileTypeFromPathStrippedError(p) ==
    LET exts == Uncompressed(p)
    IN  IF HasExtension(exts) /\ Extension(exts) \in FastaExts
        THEN [kind |-> "Ok", filetype |-> "Fasta"]
        ELSE IF HasExtension(exts) /\ Extension(exts) \in FastqExts
        THEN [kind |-> "Ok", filetype |-> "Fastq"]
        ELSE [kind |-> "UnknownFileType",
              path |-> p.stem \o JoinExts(exts)]

\* FileType::from_path: the format named by the extension that remains after
\* the compression suffix, or UnknownFileType with the path as given.
FileTypeFromPath(p) ==
    LET exts == Uncompressed(p)
    IN  IF HasExtension(exts) /\ Extension(exts) \in FastaExts
        THEN [kind |-> "Ok", filetype |-> "Fasta"]
        ELSE IF HasExtension(exts) /\ Extension(exts) \in FastqExts
        THEN [kind |-> "Ok", filetype |-> "Fastq"]
        ELSE [kind |-> "UnknownFileType", path |-> PathString(p)]

\* Fastx::from_path: Fastx { path, filetype, is_compressed }, or the error of
\* FileType::from_path.
FastxFromPath(p) ==
    LET ft == FileTypeFromPath(p)
    IN  IF ft.kind = "Ok"
        THEN [kind |-> "Ok", path |-> PathString(p), filetype |-> ft.filetype,
              is_compressed |-> IsCompressed(p)]
        ELSE ft

\* The state at the call of Fastx::from_path.
ClassifyInit ==
    /\ path \in Paths
    /\ fastx = [kind |-> "call"]

\* Fastx::from_path(path)
FromPath ==
    /\ fastx.kind = "call"
    /\ fastx' = FastxFromPath(path)
    /\ UNCHANGED path
    /\ UNCHANGED << filterVars, lengthsVars >>

ClassifyNext == FromPath

ClassifyCall == FilterIdle /\ LengthsIdle /\ ClassifyInit

SpecClassify == ClassifyCall /\ [][ClassifyNext]_vars

\* ------------------------------------------------- notions of the claims

\* The number of entries of the input file.
NumRecords == Len(file)

\* Every entry of the file is a well-formed record.
WellFormed == \A k \in 1..Len(file) : file[k].ok

\* The indices of W that name a record of the file.
InRange(W) == { p \in W : p < NumRecords }

Max(S) == CHOOSE m \in S : \A x \in S : x <= m

\* The text of the file's records at the positions of W below k, in file
\* order, each exactly as it stands in the file.
RECURSIVE OriginalText(_, _)
OriginalText(W, k) ==
    IF k = 0 THEN ""
    ELSE OriginalText(W, k - 1)
         \o (IF (k - 1) \in W
             THEN RawText(filetype, file[k], k < Len(file) \/ eofNewline)
             ELSE "")

\* The same, with every record ending in a line terminator.
RECURSIVE TerminatedText(_, _)
TerminatedText(W, k) ==
    IF k = 0 THEN ""
    ELSE TerminatedText(W, k - 1)
         \o (IF (k - 1) \in W THEN RawText(filetype, file[k], TRUE) ELSE "")

\* filter_reads_into has returned Ok or IndicesNotFound: no open, parse or
\* write failure ended it.
Scanned == pc = "done" /\ result \in {"Ok", "IndicesNotFound"}

\* ------------------------------------------------------------------ claims

C2_SuccessIffAllInRange ==
    (pc = "done" /\ openable /\ WellFormed /\ ~writeErr) =>
        /\ result \in {"Ok", "IndicesNotFound"}
        /\ result = "Ok" <=> wanted0 \subseteq 0..(NumRecords - 1)
        /\ sink = TerminatedText(InRange(wanted0), NumRecords)
        /\ attempts = Cardinality(InRange(wanted0))
        /\ (NumRecords = 0 /\ wanted0 # {})
               => (result = "IndicesNotFound" /\ sink = "")

\* C2, its case: one wanted index in range and one out of range on a
\* well-formed file; the sink is neither empty nor the whole file.
C2_Witness ==
    /\ pc = "done"
    /\ WellFormed
    /\ result = "IndicesNotFound"
    /\ InRange(wanted0) # {}
    /\ sink # ""
    /\ sink # TerminatedText(0..(NumRecords - 1), NumRecords)

\* C3, as stated: with an empty wanted set, filter_reads_into returns Ok and
\* writes nothing for every file that opens, whatever the file holds.
C3_EmptyWantedSucceeds ==
    (pc = "done" /\ openable /\ wanted0 = {}) =>
        (result = "Ok" /\ attempts = 0 /\ sink = "")

\* C4, as stated: when reader.read reports a parse error, filter_reads_into
\* ends at once by returning ParseError, and what was written stays written.
C4_ParseErrorReturned ==
    (pc = "done" /\ pulled >= 1 /\ pulled <= NumRecords /\ ~file[pulled].ok) =>
        /\ result = "ParseError"
        /\ sink = TerminatedText(wanted0 \ reads_to_keep, NumRecords)

\* C5: when a write to the sink fails, filter_reads_into returns WriteError at
\* once: no record is pulled and no write is attempted after it, the failing
\* position stays in the wanted set, and the result is WriteError even when
\* other wanted indices are out of range.
C5_WriteErrorImmediate ==
    writeErr =>
        /\ pc = "done"
        /\ result = "WriteError"
        /\ i \in reads_to_keep
        /\ reads_to_keep = { p \in wanted0 : p >= i }
        /\ pulled = i + 1
        /\ attempts = Cardinality(wanted0 \ reads_to_keep) + 1
        /\ sink = TerminatedText(wanted0 \ reads_to_keep, NumRecords)

\* C5, its case: a write failed after an earlier write went through, with a
\* wanted index out of range still in the set.
C5_Witness ==
    /\ writeErr
    /\ result = "WriteError"
    /\ sink # ""
    /\ \E p \in reads_to_keep : p >= NumRecords

\* C6: IndicesNotFound is returned only at end of stream: every record of the
\* file was pulled and tested, and the matched records are all in the sink.
C6_NotFoundOnlyAtEnd ==
    result = "IndicesNotFound" =>
        /\ pc = "done"
        /\ pulled = NumRecords + 1
        /\ i = NumRecords
        /\ IsEmpty(record)
        /\ WellFormed
        /\ reads_to_keep = { p \in wanted0 : p >= NumRecords }
        /\ sink = TerminatedText(InRange(wanted0), NumRecords)

\* C6, its case: IndicesNotFound after a scan that wrote a record.
C6_Witness ==
    /\ result = "IndicesNotFound"
    /\ NumRecords >= 2
    /\ attempts >= 1

\* C7: when the input file cannot be opened, filter_reads_into returns the
\* open error before any record is read, with nothing written, for every
\* wanted set.
C7_OpenFailureWritesNothing ==
    (~openable /\ pc # "open") =>
        /\ pc = "done"
        /\ result = "ReadError"
        /\ pulled = 0
        /\ attempts = 0
        /\ sink = ""
        /\ reads_to_keep = wanted0

\* C7, its case: the open failed with an empty wanted set on a file that
\* holds records.
C7_Witness ==
    /\ ~openable
    /\ result = "ReadError"
    /\ wanted0 = {}
    /\ NumRecords >= 1

\* C10: once the wanted set has become empty the reader is not advanced again:
\* for a non-empty wanted set whose largest index m is in range, exactly m + 1
\* records are pulled, and a malformed record after position m does not change
\* the result.
C10_StopsAfterLastWanted ==
    /\ (wanted0 # {} /\ reads_to_keep = {}) =>
           (pulled = Max(wanted0) + 1 /\ pc \in {"check", "finish", "done"})
    /\ (/\ pc = "done"
        /\ openable
        /\ ~writeErr
        /\ wanted0 # {}
        /\ Max(wanted0) < NumRecords
        /\ \A k \in 1..(Max(wanted0) + 1) : file[k].ok) =>
           /\ result = "Ok"
           /\ pulled = Max(wanted0) + 1
           /\ sink = TerminatedText(wanted0, NumRecords)

\* C10, its case: the scan succeeded on a file with a malformed record after
\* the largest wanted position.
C10_Witness ==
    /\ pc = "done"
    /\ result = "Ok"
    /\ wanted0 # {}
    /\ \E k \in (Max(wanted0) + 2)..NumRecords : ~file[k].ok

\* Every record of the file scanned by read_lengths is well-formed.
SeqWellFormed == \A k \in 1..Len(seqfile) : seqfile[k].ok

C9_ClassifiedByExtension ==
    fastx.kind \notin {"idle", "call"} =>
        LET n == Len(path.exts)
            plain(S) == n >= 1 /\ path.exts[n] \in S
            gzipped(S) ==
                n >= 2 /\ path.exts[n] = "gz" /\ path.exts[n - 1] \in S
            ok(ft, z) ==
                [kind |-> "Ok", path |-> PathString(path), filetype |-> ft,
                 is_compressed |-> z]
        IN  IF plain({"fa", "fasta"}) THEN fastx = ok("Fasta", FALSE)
            ELSE IF plain({"fq", "fastq"}) THEN fastx = ok("Fastq", FALSE)
            ELSE IF gzipped({"fa", "fasta"}) THEN fastx = ok("Fasta", TRUE)
            ELSE IF gzipped({"fq", "fastq"}) THEN fastx = ok("Fastq", TRUE)
            ELSE fastx = [kind |-> "UnknownFileType",
                          path |-> PathString(path)]

\* C9, its case: data/in.fq.gz classified as compressed Fastq.
C9_Witness ==
    /\ fastx.kind = "Ok"
    /\ PathString(path) = "data/in.fq.gz"
    /\ fastx.filetype = "Fastq"
    /\ fastx.is_compressed

\* One step of filter_reads_into leaves the wanted set alone or takes the
\* current position out of it, and takes it out only with a write of the
\* current record that went through.
WantedOnlyShrinks ==
    /\ reads_to_keep' \subseteq reads_to_keep
    /\ reads_to_keep' # reads_to_keep =>
           /\ reads_to_keep \ reads_to_keep' = {i}
           /\ i' = i
           /\ attempts' = attempts + 1
           /\ ~writeErr'
           /\ sink' = sink \o Display(filetype, record)

\* C11: the wanted set only shrinks: no index is ever inserted, the only index
\* removed in an iteration is the current position, and only after its record
\* was written; so whenever the record at position i is about to be tested,
\* the set is the initial set without the indices below i.
C11_WantedSetOnlyShrinks ==
    /\ [](pc = "test" => reads_to_keep = { p \in wanted0 : p >= i })
    /\ [][WantedOnlyShrinks]_vars

\* C11, its case: a record is about to be tested after an earlier position
\* was written and removed, with indices still wanted.
C11_Witness ==
    /\ pc = "test"
    /\ ~IsEmpty(record)
    /\ i >= 1
    /\ reads_to_keep # wanted0
    /\ reads_to_keep # {}

\* A step that goes on from the end of an iteration to the next record
\* increments the counter below u32::MAX, with an index above the current
\* position still wanted.
IncrementInRange ==
    (pc = "check" /\ pc' # "finish") =>
        /\ i < U32Max
        /\ i' = i + 1
        /\ pc' = "read"
        /\ \E p \in reads_to_keep : p > i

\* C12: the 32-bit position counter never overflows, whatever the length of
\* the file and the wanted set: whenever it is incremented an index above the
\* current position is still wanted, so it never exceeds the largest index
\* initially wanted, and stays 0 when the wanted set is empty.
C12_CounterNeverOverflows ==
    /\ [](i <= (IF wanted0 = {} THEN 0 ELSE Max(wanted0)))
    /\ [][IncrementInRange]_vars

\* C12, its case: the counter stands at u32::MAX at the end of a scan of a
\* file that holds more records than a u32 can count.
C12_Witness ==
    /\ pc = "done"
    /\ result = "Ok"
    /\ i = U32Max
    /\ NumRecords > U32Max + 1

====
